---------------------------- MODULE Spec2Model ----------------------------
(***************************************************************************)
(* Bevakningsverktyget: the monitoring service (BevakningService), its     *)
(* HTTP triggers (api/routes.py) and the scheduler job (main.py); the      *)
(* Allabolag scraper (scrapers/allabolag_scraper.py) and the job lock of   *)
(* its batch script (scripts/allabolag-batch-update.py).                   *)
(*                                                                         *)
(* Python values are encoded as follows.  A str is a TLA+ string; an       *)
(* Optional value is a sequence of length 0 (None) or 1 (the value); a     *)
(* dict that keeps insertion order is a sequence of records with unique    *)
(* keys; datetime.now() reads the variable clock.                          *)
(***************************************************************************)
EXTENDS Integers, Sequences, FiniteSets, TLC

(***************************************************************************)
(* Bounds of the model.                                                    *)
(***************************************************************************)
MaxClock == 1

\* the longest listing that the loader is applied to
MaxListing == 3

\* the most events of a store that the read operations are applied to
MaxStore == 2

\* the companies a run of the batch script scrapes
MaxCandidates == 1

\* the last tick of the scraper's clock
MaxTime == 6

\* the scrape calls made on one scraper
MaxCalls == 2

(***************************************************************************)
(* Python values.                                                          *)
(***************************************************************************)
None == <<>>

Some(v) == <<v>>

IsNone(o) == o = <<>>

\* str(x) inside an f-string: None is rendered as the text "None"
FormatStr(o) == IF IsNone(o) THEN "None" ELSE o[1]

UpperChars ==
    <<"A", "B", "C", "D", "E", "F", "G", "H", "I", "J", "K", "L", "M", "N",
      "O", "P", "Q", "R", "S", "T", "U", "V", "W", "X", "Y", "Z", "Å", "Ä", "Ö">>

LowerChars ==
    <<"a", "b", "c", "d", "e", "f", "g", "h", "i", "j", "k", "l", "m", "n",
      "o", "p", "q", "r", "s", "t", "u", "v", "w", "x", "y", "z", "å", "ä", "ö">>

\* str.lower() of a single character
LowerChar(c) ==
    IF \E i \in 1..Len(UpperChars) : UpperChars[i] = c
    THEN LowerChars[CHOOSE i \in 1..Len(UpperChars) : UpperChars[i] = c]
    ELSE c

RECURSIVE Lower(_)
\* str.lower()
Lower(s) ==
    IF Len(s) = 0 THEN ""
    ELSE LowerChar(SubSeq(s, 1, 1)) \o Lower(SubSeq(s, 2, Len(s)))

\* the Python test  word in text
Contains(text, word) ==
    \E i \in 1..(Len(text) - Len(word) + 1) :
        SubSeq(text, i, i + Len(word) - 1) = word

\* any(word in text for word in words)
AnyWordIn(text, words) == \E w \in words : Contains(text, w)

(***************************************************************************)
(* EventType and the classifier.                                           *)
(***************************************************************************)
EventType ==
    {"styrelse_andring", "vd_byte", "konkurs", "likvidation", "fusion",
     "nyemission", "bolagsordning_andring", "kallelse_okand_borgenar",
     "arsredovisning", "annan"}

\* the if/elif chain of _classify_event_type, in source order
ClassifyRules ==
    << [words |-> {"konkurs", "konkursbeslut"}, typ |-> "konkurs"],
       [words |-> {"likvidation", "likvidator"}, typ |-> "likvidation"],
       [words |-> {"fusion", "sammanslagning"}, typ |-> "fusion"],
       [words |-> {"styrelse", "styrelseledamot", "styrelsens"},
        typ |-> "styrelse_andring"],
       [words |-> {"verkställande direktör", "vd "}, typ |-> "vd_byte"],
       [words |-> {"bolagsordning"}, typ |-> "bolagsordning_andring"],
       [words |-> {"nyemission", "aktiekapital"}, typ |-> "nyemission"],
       [words |-> {"okända borgenärer", "kallelse på"},
        typ |-> "kallelse_okand_borgenar"],
       [words |-> {"årsredovisning", "årsbokslut"}, typ |-> "arsredovisning"] >>

\* text = f"{kungorelse.typ} {kungorelse.namn}".lower()
ClassifyText(k) == Lower(FormatStr(k.typ) \o " " \o FormatStr(k.namn))

\* as classify_event_type, with the last matching rule winning
classify_event_type_last_match(k) ==
    LET text == ClassifyText(k)
        hits == {i \in 1..Len(ClassifyRules) : AnyWordIn(text, ClassifyRules[i].words)}
    IN  IF hits = {} THEN "annan"
        ELSE ClassifyRules[CHOOSE i \in hits : \A j \in hits : i >= j].typ

\* BevakningService._classify_event_type
classify_event_type(k) ==
    LET text == ClassifyText(k)
        hits == {i \in 1..Len(ClassifyRules) : AnyWordIn(text, ClassifyRules[i].words)}
    IN  IF hits = {} THEN "annan"
        ELSE ClassifyRules[CHOOSE i \in hits : \A j \in hits : i <= j].typ

(***************************************************************************)
(* The watch list: BevakningService._load_foretag.                         *)
(***************************************************************************)
RECURSIVE RemoveChar(_, _)
\* str.replace(c, '') for a single character c
RemoveChar(s, c) ==
    IF Len(s) = 0 THEN ""
    ELSE IF SubSeq(s, 1, 1) = c THEN RemoveChar(SubSeq(s, 2, Len(s)), c)
         ELSE SubSeq(s, 1, 1) \o RemoveChar(SubSeq(s, 2, Len(s)), c)

RECURSIVE Zfill(_, _)
\* str.zfill(width)
Zfill(s, width) == IF Len(s) >= width THEN s ELSE Zfill("0" \o s, width)

\* as DictSet, keeping the value that a key already has
DictSet_first_wins(d, key, value) ==
    IF \E i \in 1..Len(d) : d[i].organisationsnummer = key
    THEN d
    ELSE Append(d, value)

\* self.bevakade_foretag[key] = value on an insertion-ordered dict
DictSet(d, key, value) ==
    IF \E i \in 1..Len(d) : d[i].organisationsnummer = key
    THEN [i \in 1..Len(d) |->
            IF d[i].organisationsnummer = key THEN value ELSE d[i]]
    ELSE Append(d, value)

\* the constructor call BevakatForetag(organisationsnummer=, namn=, aktiv_bevakning=True)
BevakatForetag(orgnr, namn) ==
    [organisationsnummer |-> orgnr, namn |-> namn, aktiv_bevakning |-> TRUE]

\* The JSON text of the listing: an object is the record of its members; a
\* value of any other type is the record [json |-> its text].
IsObject(item) == "json" \notin DOMAIN item

\* item.get(key, default) on an object
Get(item, key, default) == IF key \in DOMAIN item THEN item[key] ELSE default

\* as StripSeparators, removing the hyphens only
StripSeparators_hyphens_only(raw_orgnr) == RemoveChar(raw_orgnr, "-")

\* raw_orgnr.replace('-', '').replace(' ', '')
StripSeparators(raw_orgnr) == RemoveChar(RemoveChar(raw_orgnr, "-"), " ")

RECURSIVE LoadItems(_, _, _, _)
\* the loop over data in _load_foretag; item.get raises AttributeError on
\* an item that is not an object, and the handler of line 84 catches it
LoadItems(data, i, d, skipped) ==
    IF i > Len(data) THEN [foretag |-> d, skipped |-> skipped, caught |-> FALSE]
    ELSE
      LET item == data[i] IN
      IF ~IsObject(item)
      THEN [foretag |-> d, skipped |-> skipped, caught |-> TRUE]
      ELSE
        LET stripped == StripSeparators(Get(item, "orgnr", ""))
            orgnr == IF Len(stripped) < 10 THEN Zfill(stripped, 10) ELSE stripped
            namn == Get(item, "company_name", "")
        IN  IF Len(stripped) > 10
            THEN LoadItems(data, i + 1, d, skipped + 1)
            ELSE IF orgnr # "" /\ namn # "" /\ Len(orgnr) = 10
                 THEN LoadItems(data, i + 1,
                                DictSet(d, orgnr, BevakatForetag(orgnr, namn)),
                                skipped)
                 ELSE LoadItems(data, i + 1, d, skipped)

\* the file at foretags_lista_path holding the JSON array data
ArrayFile(data) == [kind |-> "array", data |-> data]

\* BevakningService._load_foretag: open and json.load raise on a file that
\* is missing or is not JSON, the for loop raises on the keys of a JSON
\* object; the handler of line 84 logs the exception and returns
load_foretag(file) ==
    IF file.kind = "array" THEN LoadItems(file.data, 1, <<>>, 0)
    ELSE [foretag |-> <<>>, skipped |-> 0, caught |-> TRUE]

\* the listings the service is constructed from
Listings ==
    { <<>>,
      << [orgnr |-> "556000-0000", company_name |-> "Acme AB"],
         [orgnr |-> "55912345678", company_name |-> "Elva AB"],
         [orgnr |-> "556000 0000", company_name |-> "Acme Nordic AB"] >>,
      << [orgnr |-> "12345", company_name |-> "Gamma AB"],
         [orgnr |-> "559999-0001", company_name |-> ""],
         [orgnr |-> "556000-0000", company_name |-> "Acme AB"] >> }

(***************************************************************************)
(* The announcement source: POITNodeScraper.                               *)
(***************************************************************************)
\* the records the Node.js process prints under "kungorelser"
JsonK1 ==
    [kungorelse_id |-> Some("K1"), typ |-> Some("Konkurs"),
     namn |-> Some("Konkursbeslut meddelat"), url |-> Some("https://poit/K1")]

JsonK2 ==
    [kungorelse_id |-> Some("K2"), typ |-> Some("Styrelse"),
     namn |-> Some("Ny styrelseledamot"), url |-> None]

\* "typ": null
JsonK3 ==
    [kungorelse_id |-> Some("K3"), typ |-> None,
     namn |-> Some("Aktiekapital"), url |-> None]

\* what one run of the Node.js process can end in
NodeOutcomes ==
    { [kind |-> "timeout"],
      [kind |-> "returncode"],
      [kind |-> "badjson"],
      [kind |-> "json", success |-> FALSE, kungorelser |-> <<JsonK1>>],
      [kind |-> "json", success |-> TRUE, kungorelser |-> <<>>],
      [kind |-> "json", success |-> TRUE, kungorelser |-> <<JsonK2, JsonK1>>],
      [kind |-> "json", success |-> TRUE, kungorelser |-> <<JsonK1, JsonK3, JsonK2>>] }

\* the dataclass Kungorelse built from one JSON record
Kungorelse(k, orgnr) ==
    [kungorelse_id |-> k.kungorelse_id, typ |-> k.typ, namn |-> k.namn,
     url |-> k.url, organisationsnummer |-> Some(orgnr)]

\* POITNodeScraper.search_by_orgnr: the SearchResult for one process outcome
search_by_orgnr(orgnr, out) ==
    IF out.kind = "json"
    THEN [success |-> out.success, orgnr |-> orgnr,
          kungorelser |-> [i \in 1..Len(out.kungorelser) |->
                              Kungorelse(out.kungorelser[i], orgnr)]]
    ELSE [success |-> FALSE, orgnr |-> orgnr, kungorelser |-> <<>>]

(***************************************************************************)
(* Events: the pydantic model Haendelse.                                   *)
(***************************************************************************)
\* the records the source can deliver
JsonRecords == {JsonK1, JsonK2, JsonK3}

\* self._classify_event_type(k), evaluated once for each text the source delivers
ClassifyMemo ==
    [p \in {<<k.typ, k.namn>> : k \in JsonRecords} |->
        classify_event_type([typ |-> p[1], namn |-> p[2]])]

\* pydantic accepts the fields: rubrik is a required str
HaendelseValid(k) == ~IsNone(k.typ)

\* as Haendelse, with rubrik and beskrivning taken from the wrong fields
Haendelse_swapped(foretag, k, now) ==
    [id |-> None,
     foretag_orgnr |-> foretag.organisationsnummer,
     foretag_namn |-> foretag.namn,
     haendelse_typ |-> ClassifyMemo[<<k.typ, k.namn>>],
     rubrik |-> FormatStr(k.namn),
     beskrivning |-> k.typ,
     kalla |-> "POIT",
     kalla_url |-> k.url,
     kalla_id |-> k.kungorelse_id,
     upptackt_datum |-> now,
     notifierad |-> FALSE]

\* Haendelse(...) as constructed in kontrollera_poit
Haendelse(foretag, k, now) ==
    [id |-> None,
     foretag_orgnr |-> foretag.organisationsnummer,
     foretag_namn |-> foretag.namn,
     haendelse_typ |-> ClassifyMemo[<<k.typ, k.namn>>],
     rubrik |-> k.typ[1],
     beskrivning |-> k.namn,
     kalla |-> "POIT",
     kalla_url |-> k.url,
     kalla_id |-> k.kungorelse_id,
     upptackt_datum |-> now,
     notifierad |-> FALSE]

\* the number of leading records of ks for which Haendelse(...) does not raise
RECURSIVE ValidPrefix(_)
ValidPrefix(ks) ==
    IF Len(ks) = 0 \/ ~HaendelseValid(ks[1]) THEN 0
    ELSE 1 + ValidPrefix(Tail(ks))

\* as BuildEvents, naming the entity after the announcement
BuildEvents_renamed(foretag, ks, now) ==
    [i \in 1..ValidPrefix(ks) |->
        Haendelse([foretag EXCEPT !.namn = FormatStr(ks[i].namn)], ks[i], now)]

\* the events the inner loop appends before it ends or raises
BuildEvents(foretag, ks, now) ==
    [i \in 1..ValidPrefix(ks) |-> Haendelse(foretag, ks[i], now)]

(***************************************************************************)
(* State.                                                                  *)
(***************************************************************************)
\* the threads that call into the service (the event loop, the thread pool
\* of the background tasks and of the scheduler, other callers); each makes
\* one call, and thread 2 starts after thread 1 has started
Threads == {1, 2}

VARIABLES
    bevakade_foretag,      \* BevakningService.bevakade_foretag
    senaste_kontroll,      \* BevakningService.senaste_kontroll
    upptackta_haendelser,  \* BevakningService.upptackta_haendelser
    clock,                 \* datetime.now()
    reply,                 \* the last HTTP response of a trigger route
    pc,                    \* per thread: position in kontrollera_poit
    entry,                 \* per thread: the caller of kontrollera_poit
    foretag_lista,         \* per thread: local foretag_lista
    idx,                   \* per thread: position of the for loop
    nya_haendelser,        \* per thread: local nya_haendelser
    polled,                \* per thread: the source calls of the cycle
    store_before,          \* per thread: the event store when the cycle began
    overlapped,            \* per thread: another cycle was in flight meanwhile
    result,                \* per thread: how the last call ended
    kungorelse,            \* the argument of a call of _classify_event_type
    event_type,            \* what that call returned, None before it returns
    foretags_lista,        \* the file at BevakningService.foretags_lista_path
    skipped,               \* _load_foretag's local skipped, as it is logged
    load_caught,           \* _load_foretag logged an exception (line 85)
    bevakning_service,     \* routes.bevakning_service is set
    check_interval_minutes,\* settings.check_interval_minutes
    answer                 \* what the last read operation returned

service == <<bevakade_foretag, senaste_kontroll, upptackta_haendelser>>

frames == <<pc, entry, foretag_lista, idx, nya_haendelser, polled,
            store_before, overlapped, result>>

classifier == <<kungorelse, event_type>>

startup == <<foretags_lista, skipped, load_caught, bevakning_service,
             check_interval_minutes>>

\* the monitoring service and its callers
bevakning == <<service, clock, reply, frames, classifier, startup, answer>>

VARIABLES
    sync_jobs,             \* the rows of table sync_jobs with job_name JOB_NAME
    run_pc,                \* per run of the batch script: position in main
    job_data,              \* per run: acquire_job_lock's local job.data
    acquired,              \* per run: what acquire_job_lock returned
    todo,                  \* per run: candidates the loop has not scraped yet
    run_exit,              \* per run: how main ended
    time_now,              \* time.time()
    delay,                 \* AllabolagScraper.delay
    last_request,          \* AllabolagScraper.last_request
    api,                   \* the scrape call in progress: sync, async or none
    calls,                 \* the scrape calls made so far
    fetch_pc,              \* per page: position in _fetch_page(_async)
    wake,                  \* per page: when its asyncio.sleep is over
    requests,              \* the page requests sent, with their start times
    company_details,       \* table company_details: the orgnr of its rows
    company_roles,         \* table company_roles
    company_financials,    \* table company_financials
    scraped,               \* the argument data of _save_to_supabase
    save_pc,               \* position in _save_to_supabase
    saved,                 \* what _save_to_supabase returned
    rows_before            \* the two tables when _save_to_supabase was called

job == <<sync_jobs, run_pc, job_data, acquired, todo, run_exit>>

limiter == <<time_now, delay, last_request, api, calls, fetch_pc, wake, requests>>

saving == <<company_details, company_roles, company_financials, scraped,
            save_pc, saved, rows_before>>

\* the Allabolag scraper and its batch script
allabolag == <<job, limiter, saving>>

vars == <<bevakning, allabolag>>

NoReply == [route |-> "none", status |-> 0, in_flight |-> 0, body |-> <<>>]

NoAnswer == [op |-> "none"]

NoResult == [kind |-> "none", value |-> <<>>, limit |-> None, scraper |-> FALSE,
             stamp |-> None]

\* Settings.check_interval_minutes when the environment does not set it
DefaultCheckInterval == 60

\* BevakningService.__init__ has run on the file: the watch list is what
\* _load_foretag stored
Loaded(file) ==
    /\ foretags_lista = file
    /\ bevakade_foretag = load_foretag(file).foretag
    /\ skipped = load_foretag(file).skipped
    /\ load_caught = load_foretag(file).caught

\* the job of the batch script in table sync_jobs
JOB_NAME == "allabolag_daily"

\* the processes that run scripts/allabolag-batch-update.py
Runs == {1, 2}

\* the two pages of a company: BASE_URL/orgnr and BASE_URL/orgnr/organisation
Pages == {"main", "org"}

\* no run of the batch script has started
JobIdle ==
    /\ run_pc = [r \in Runs |-> "idle"]
    /\ job_data = [r \in Runs |-> <<>>]
    /\ acquired = [r \in Runs |-> None]
    /\ todo = [r \in Runs |-> 0]
    /\ run_exit = [r \in Runs |-> "none"]

\* AllabolagScraper.__init__ has run and no scrape call has been made; the
\* clock is seconds since the epoch, far beyond any delay
LimiterIdle ==
    /\ last_request = 0
    /\ time_now = delay
    /\ api = "none"
    /\ calls = 0
    /\ fetch_pc = [p \in Pages |-> "idle"]
    /\ wake = [p \in Pages |-> 0]
    /\ requests = <<>>

NoData == [orgnr |-> "", roles |-> <<>>, financials |-> <<>>]

\* _save_to_supabase has not been called
SavingIdle ==
    /\ scraped = NoData
    /\ save_pc = "idle"
    /\ saved = None
    /\ rows_before = [roles |-> {}, financials |-> {}]

\* AllabolagScraper.delay when the caller does not pass it
DefaultDelay == 1

\* the scraper and its batch script are not in use
AllabolagIdle ==
    /\ sync_jobs = <<>>
    /\ JobIdle
    /\ delay = DefaultDelay
    /\ LimiterIdle
    /\ company_details = {}
    /\ company_roles = {}
    /\ company_financials = {}
    /\ SavingIdle

\* no request has been made and no thread is inside kontrollera_poit
InitIdle ==
    /\ answer = NoAnswer
    /\ reply = NoReply
    /\ pc = [t \in Threads |-> "idle"]
    /\ entry = [t \in Threads |-> "none"]
    /\ foretag_lista = [t \in Threads |-> <<>>]
    /\ idx = [t \in Threads |-> 0]
    /\ nya_haendelser = [t \in Threads |-> <<>>]
    /\ polled = [t \in Threads |-> <<>>]
    /\ store_before = [t \in Threads |-> <<>>]
    /\ overlapped = [t \in Threads |-> FALSE]
    /\ result = [t \in Threads |-> NoResult]

\* BevakningService.__init__ followed by the start of the application
InitService ==
    /\ \E data \in Listings : Loaded(ArrayFile(data))
    /\ bevakning_service = TRUE
    /\ check_interval_minutes = DefaultCheckInterval
    /\ senaste_kontroll = None
    /\ upptackta_haendelser = <<>>
    /\ clock = 0
    /\ InitIdle

Init ==
    /\ InitService
    /\ kungorelse = [typ |-> None, namn |-> None]
    /\ event_type = None
    /\ AllabolagIdle

\* a cycle of thread t is in flight
InFlight(t) == pc[t] \in {"poll", "stamp", "extend"}

NumInFlight == Cardinality({t \in Threads : InFlight(t)})

\* the passing of time
Tick ==
    /\ clock < MaxClock
    /\ clock' = clock + 1
    /\ UNCHANGED <<service, reply, frames, classifier, startup, answer,
                 allabolag>>

(***************************************************************************)
(* BevakningService.kontrollera_poit.                                      *)
(***************************************************************************)
\* the parameters of kontrollera_poit besides self
KontrolleraParams == {"max_foretag"}

\* Python raises TypeError for a keyword that is not a parameter
BindsTo(kwnames, params) == kwnames \subseteq params

\* the truth value of  if max_foretag:
Truthy(m) == ~IsNone(m) /\ m[1] # 0

\* seq[:n] for n >= 0
Slice(seq, n) == SubSeq(seq, 1, IF n < Len(seq) THEN n ELSE Len(seq))

\* list(self.bevakade_foretag.values()), cut to max_foretag when it is truthy
ForetagLista(m) ==
    IF Truthy(m) THEN Slice(bevakade_foretag, m[1]) ELSE bevakade_foretag

\* lines 141-150: the cycle begins; the scraper is constructed (it raises
\* FileNotFoundError when the Node.js script is absent) and the list is taken
Enter(t, who, m, script_exists) ==
    LET lista == IF script_exists THEN ForetagLista(m) ELSE <<>> IN
    /\ entry' = [entry EXCEPT ![t] = who]
    /\ foretag_lista' = [foretag_lista EXCEPT ![t] = lista]
    /\ idx' = [idx EXCEPT ![t] = 1]
    /\ nya_haendelser' = [nya_haendelser EXCEPT ![t] = <<>>]
    /\ polled' = [polled EXCEPT ![t] = <<>>]
    /\ store_before' = [store_before EXCEPT ![t] = upptackta_haendelser]
    /\ overlapped' = [u \in Threads |->
                        IF u = t THEN NumInFlight > 0
                        ELSE overlapped[u] \/ InFlight(u)]
    /\ result' = [result EXCEPT ![t] =
                    [kind |-> "running", value |-> <<>>, limit |-> m,
                     scraper |-> script_exists, stamp |-> None]]
    /\ pc' = [pc EXCEPT ![t] = IF Len(lista) > 0 THEN "poll" ELSE "stamp"]
    /\ UNCHANGED <<service, clock, reply, classifier, startup, answer,
                 allabolag>>

\* the call  service.kontrollera_poit(**kwargs)  made by who: the cycle
\* begins, or the call raises TypeError and the caller handles it
Call(t, who, kwnames, m, script_exists) ==
    /\ \A u \in Threads : u < t => pc[u] # "idle"
    /\ IF BindsTo(kwnames, KontrolleraParams)
       THEN Enter(t, who, m, script_exists)
       ELSE /\ result' = [result EXCEPT ![t] =
                            [NoResult EXCEPT !.kind = "TypeError"]]
            /\ entry' = [entry EXCEPT ![t] = who]
            /\ reply' = IF who = "sync"
                        THEN [route |-> "kontrollera/sync", status |-> 500,
                              in_flight |-> NumInFlight, body |-> <<>>]
                        ELSE reply
            /\ pc' = [pc EXCEPT ![t] = "done"]
            /\ UNCHANGED <<service, clock, foretag_lista, idx, nya_haendelser,
                           polled, store_before, overlapped, classifier, startup, answer,
                 allabolag>>

\* as EventsOf, without the test of result.success
EventsOf_ignoring_success(foretag, res, now) ==
    BuildEvents(foretag, res.kungorelser, now)

\* lines 157-176: a failure result is skipped, a success result is turned
\* into events until Haendelse(...) raises
EventsOf(foretag, res, now) ==
    IF res.success THEN BuildEvents(foretag, res.kungorelser, now) ELSE <<>>

\* as LoopEnds, with break in the place of continue
LoopEnds_on_failure(res, raised, last) == raised \/ last \/ ~res.success

\* the for loop ends after the last entity, or when the exception handler
\* around the loop (line 179) catches
LoopEnds(res, raised, last) == raised \/ last

\* lines 152-177: one turn of the for loop, for the entity foretag_lista[idx]
Poll(t) ==
    /\ pc[t] = "poll"
    /\ \E out \in NodeOutcomes :
         LET foretag == foretag_lista[t][idx[t]]
             res == search_by_orgnr(foretag.organisationsnummer, out)
             built == EventsOf(foretag, res, clock)
             raised == res.success /\ Len(built) < Len(res.kungorelser)
         IN  /\ polled' = [polled EXCEPT ![t] =
                            Append(@, [orgnr |-> foretag.organisationsnummer,
                                       success |-> res.success,
                                       kungorelser |-> res.kungorelser,
                                       events |-> built,
                                       raised |-> raised])]
             /\ nya_haendelser' = [nya_haendelser EXCEPT ![t] = @ \o built]
             /\ idx' = [idx EXCEPT ![t] = @ + 1]
             /\ pc' = [pc EXCEPT ![t] =
                        IF LoopEnds(res, raised, idx[t] = Len(foretag_lista[t]))
                        THEN "stamp" ELSE "poll"]
    /\ UNCHANGED <<service, clock, reply, entry, foretag_lista,
                   store_before, overlapped, result, classifier, startup, answer,
                 allabolag>>

\* line 182: self.senaste_kontroll = datetime.now()
Stamp(t) ==
    /\ pc[t] = "stamp"
    /\ senaste_kontroll' = Some(clock)
    /\ result' = [result EXCEPT ![t].stamp = Some(clock)]
    /\ pc' = [pc EXCEPT ![t] = "extend"]
    /\ UNCHANGED <<bevakade_foretag, upptackta_haendelser, clock, reply,
                   entry, foretag_lista, idx, nya_haendelser, polled,
                   store_before, overlapped, classifier, startup, answer,
                 allabolag>>

\* as Extend, leaving out an event whose kalla_id the store already holds
\* for the same entity
Extend_deduplicating(store, nya) ==
    store \o SelectSeq(nya, LAMBDA e :
                 ~\E i \in 1..Len(store) :
                     /\ store[i].foretag_orgnr = e.foretag_orgnr
                     /\ store[i].kalla_id = e.kalla_id)

\* as Extend, putting the new events in front
Extend_prepending(store, nya) == nya \o store

\* line 183: self.upptackta_haendelser.extend(nya_haendelser)
Extend(store, nya) == store \o nya

\* as Returned, returning the cumulative store
Returned_store(nya, store) == store

\* line 186: return nya_haendelser
Returned(nya, store) == nya

\* lines 183-186: the events are appended to the store and returned to the
\* caller; trigger_kontroll_sync sends them as its response
ExtendAndReturn(t) ==
    /\ pc[t] = "extend"
    /\ upptackta_haendelser' = Extend(upptackta_haendelser, nya_haendelser[t])
    /\ result' = [result EXCEPT ![t].kind = "returned",
                                ![t].value = Returned(nya_haendelser[t],
                                                      upptackta_haendelser')]
    /\ reply' = IF entry[t] = "sync"
                THEN [route |-> "kontrollera/sync", status |-> 200,
                      in_flight |-> NumInFlight - 1,
                      body |-> Returned(nya_haendelser[t],
                                        upptackta_haendelser')]
                ELSE reply
    /\ pc' = [pc EXCEPT ![t] = "done"]
    /\ UNCHANGED <<bevakade_foretag, senaste_kontroll, clock, entry,
                   foretag_lista, idx, nya_haendelser, polled, store_before,
                   overlapped, classifier, startup, answer,
                 allabolag>>

(***************************************************************************)
(* The callers.                                                            *)
(***************************************************************************)
\* the values of max_foretag a caller passes
MaxForetagArgs == {None, Some(0), Some(1)}

\* a caller of the service object: service.kontrollera_poit(max_foretag=m)
kontrollera_poit(t) ==
    /\ pc[t] = "idle"
    /\ \E m \in MaxForetagArgs, script_exists \in BOOLEAN :
         Call(t, "direct", IF IsNone(m) THEN {} ELSE {"max_foretag"}, m,
              script_exists)

\* POST /kontrollera: the task is added and the acknowledgement returned
trigger_kontroll(t) ==
    /\ pc[t] = "idle"
    /\ \A u \in Threads : u < t => pc[u] # "idle"
    /\ pc' = [pc EXCEPT ![t] = "task"]
    /\ entry' = [entry EXCEPT ![t] = "background"]
    /\ reply' = [route |-> "kontrollera", status |-> 200,
                 in_flight |-> NumInFlight, body |-> <<>>]
    /\ UNCHANGED <<service, clock, foretag_lista, idx, nya_haendelser,
                   polled, store_before, overlapped, result, classifier, startup, answer,
                 allabolag>>

\* the background task of POST /kontrollera:
\* service.kontrollera_poit(dagar_tillbaka=dagar_tillbaka) inside try/except
run_kontroll(t) ==
    /\ pc[t] = "task"
    /\ \E script_exists \in BOOLEAN :
         Call(t, "background", {"dagar_tillbaka"}, None, script_exists)

\* POST /kontrollera/sync: service.kontrollera_poit(dagar_tillbaka=...)
trigger_kontroll_sync(t) ==
    /\ pc[t] = "idle"
    /\ \E script_exists \in BOOLEAN :
         Call(t, "sync", {"dagar_tillbaka"}, None, script_exists)

\* the scheduler job: routes.bevakning_service.kontrollera_poit(dagar_tillbaka=1)
scheduled_check(t) ==
    /\ pc[t] = "idle"
    /\ \E script_exists \in BOOLEAN :
         Call(t, "scheduled", {"dagar_tillbaka"}, None, script_exists)

Next ==
    \/ Tick
    \/ \E t \in Threads :
         \/ kontrollera_poit(t)
         \/ trigger_kontroll(t)
         \/ run_kontroll(t)
         \/ trigger_kontroll_sync(t)
         \/ scheduled_check(t)
         \/ Poll(t)
         \/ Stamp(t)
         \/ ExtendAndReturn(t)

Spec == Init /\ [][Next]_vars

(***************************************************************************)
(* The classifier on its own: _classify_event_type applied to one          *)
(* announcement.                                                           *)
(***************************************************************************)
\* the values of kungorelse.typ
TypSamples ==
    {None, Some(""), Some("Konkurs"), Some("KONKURSBESLUT"),
     Some("Likvidation"), Some("Fusion"), Some("Styrelse"), Some("Ny VD"),
     Some("VD"), Some("Bolagsordning"), Some("Nyemission"), Some("Kallelse"),
     Some("Årsredovisning"), Some("Övrigt"), Some("kon")}

\* the values of kungorelse.namn
NamnSamples ==
    {None, Some(""), Some("Styrelsen beslutade om konkurs"),
     Some("Likvidator utsedd"), Some("sammanslagning"), Some("Anna Svensson"),
     Some("Verkställande direktör"), Some("aktiekapital"),
     Some("på okända borgenärer"), Some("Årsbokslut"), Some("kurs"),
     Some("Styrelseledamot och likvidator"), Some("Fusion, nytt aktiekapital")}

InitClassify ==
    /\ InitService
    /\ \E typ \in TypSamples, namn \in NamnSamples :
         kungorelse = [typ |-> typ, namn |-> namn]
    /\ event_type = None
    /\ AllabolagIdle

\* a call of self._classify_event_type(kungorelse)
Classify ==
    /\ IsNone(event_type)
    /\ event_type' = Some(classify_event_type(kungorelse))
    /\ UNCHANGED <<service, clock, reply, frames, kungorelse, startup, answer,
                 allabolag>>

NextClassify == Classify

SpecClassify == InitClassify /\ [][NextClassify]_vars

(***************************************************************************)
(* The start of the application on its own: lifespan constructs the        *)
(* service from the file, then the watch list is looked up.                *)
(***************************************************************************)
\* the sequences over S of length at most n
SeqsUpTo(S, n) == UNION {[1..k -> S] : k \in 0..n}

\* the items of the JSON array
ItemSamples ==
    { [orgnr |-> "556000-0000", company_name |-> "Acme AB"],
      [orgnr |-> "556000 0000", company_name |-> "Acme Nordic AB"],
      [orgnr |-> "5560000000", company_name |-> ""],
      [orgnr |-> "12345", company_name |-> "Gamma AB"],
      [orgnr |-> "55912345678", company_name |-> "Elva AB"],
      [orgnr |-> "- ", company_name |-> "Tom AB"],
      [orgnr |-> "559999-0001"],
      [orgnr |-> "SE556000", company_name |-> "Moms AB"],
      [json |-> "556000-0000"] }

\* the file at foretags_lista_path: absent, not JSON, a JSON object, or a
\* JSON array
FileSamples ==
    {[kind |-> "missing"], [kind |-> "invalid"], [kind |-> "object"]}
        \cup {ArrayFile(data) : data \in SeqsUpTo(ItemSamples, MaxListing)}

\* the arguments of the lookups
OrgnrSamples ==
    {"556000-0000", "556000 0000", "5560000000", "12345", "0000012345",
     "559999-0001", "SE556000", ""}

InitLoad ==
    /\ foretags_lista \in FileSamples
    /\ bevakade_foretag = <<>>
    /\ skipped = 0
    /\ load_caught = FALSE
    /\ bevakning_service = FALSE
    /\ check_interval_minutes = DefaultCheckInterval
    /\ senaste_kontroll = None
    /\ upptackta_haendelser = <<>>
    /\ clock = 0
    /\ InitIdle
    /\ kungorelse = [typ |-> None, namn |-> None]
    /\ event_type = None
    /\ AllabolagIdle

\* main.lifespan, lines 60-68: routes.bevakning_service = BevakningService(...);
\* the constructor runs _load_foretag, which returns in every case
lifespan ==
    /\ ~bevakning_service
    /\ LET loaded == load_foretag(foretags_lista) IN
         /\ bevakade_foretag' = loaded.foretag
         /\ skipped' = loaded.skipped
         /\ load_caught' = loaded.caught
    /\ senaste_kontroll' = None
    /\ upptackta_haendelser' = <<>>
    /\ bevakning_service' = TRUE
    /\ UNCHANGED <<foretags_lista, check_interval_minutes, clock, reply,
                   frames, classifier, answer,
                 allabolag>>

\* orgnr.replace("-", "").zfill(10), lines 94 and 99
LookupKey(orgnr) == Zfill(RemoveChar(orgnr, "-"), 10)

\* key in d
DictHas(d, key) == \E i \in 1..Len(d) : d[i].organisationsnummer = key

\* d.get(key)
DictGet(d, key) ==
    IF DictHas(d, key)
    THEN Some(d[CHOOSE i \in 1..Len(d) : d[i].organisationsnummer = key])
    ELSE None

\* BevakningService.is_bevakat(orgnr)
IsBevakat(orgnr) == DictHas(bevakade_foretag, LookupKey(orgnr))

\* BevakningService.get_foretag(orgnr)
GetForetag(orgnr) == DictGet(bevakade_foretag, LookupKey(orgnr))

\* a call of service.is_bevakat(orgnr)
is_bevakat ==
    /\ bevakning_service /\ answer = NoAnswer
    /\ \E orgnr \in OrgnrSamples :
         answer' = [op |-> "is_bevakat", orgnr |-> orgnr,
                    value |-> IsBevakat(orgnr)]
    /\ UNCHANGED <<service, clock, reply, frames, classifier, startup,
                 allabolag>>

\* a call of service.get_foretag(orgnr)
get_foretag ==
    /\ bevakning_service /\ answer = NoAnswer
    /\ \E orgnr \in OrgnrSamples :
         answer' = [op |-> "get_foretag", orgnr |-> orgnr,
                    value |-> GetForetag(orgnr)]
    /\ UNCHANGED <<service, clock, reply, frames, classifier, startup,
                 allabolag>>

NextLoad == lifespan \/ is_bevakat \/ get_foretag

SpecLoad == InitLoad /\ [][NextLoad]_vars

(***************************************************************************)
(* The read operations on their own: the status, the query of the event    *)
(* store and the routes of one entity, applied to a service that has       *)
(* completed cycles.  A datetime is a number of minutes.                   *)
(***************************************************************************)
\* timedelta(hours=1)
OneHour == 60

\* the length of a calendar day
MinutesPerDay == 1440

\* datetime.date()
Date(t) == t \div MinutesPerDay

\* BevakningService.get_status()
GetStatus ==
    [antal_bevakade_foretag |-> Len(bevakade_foretag),
     antal_kungorelser_idag |->
        Cardinality({i \in 1..Len(upptackta_haendelser) :
            Date(upptackta_haendelser[i].upptackt_datum) = Date(clock)}),
     senaste_kontroll |-> senaste_kontroll,
     nasta_kontroll |-> IF IsNone(senaste_kontroll) THEN None
                        ELSE Some(senaste_kontroll[1] + OneHour),
     status |-> "OK"]

\* the truth value of  if orgnr:  for an Optional[str]
TruthyStr(o) == ~IsNone(o) /\ o[1] # ""

\* BevakningService.get_haendelser(orgnr, haendelse_typ, from_date)
GetHaendelser(orgnr, haendelse_typ, from_date) ==
    LET by_orgnr ==
            IF TruthyStr(orgnr)
            THEN SelectSeq(upptackta_haendelser,
                           LAMBDA h : h.foretag_orgnr = LookupKey(orgnr[1]))
            ELSE upptackta_haendelser
        by_typ ==
            IF ~IsNone(haendelse_typ)
            THEN SelectSeq(by_orgnr, LAMBDA h : h.haendelse_typ = haendelse_typ[1])
            ELSE by_orgnr
    IN  IF ~IsNone(from_date)
        THEN SelectSeq(by_typ, LAMBDA h : h.upptackt_datum >= from_date[1])
        ELSE by_typ

\* the events that cycles over the watch list can have stored
EventSamples ==
    {Haendelse(bevakade_foretag[i], k, d) :
        i \in 1..Len(bevakade_foretag), k \in {JsonK1, JsonK2}, d \in 0..MaxClock}

\* the values of settings.check_interval_minutes (at least 5)
IntervalSamples == {30, 60}

\* the orgnr argument of get_haendelser
QueryOrgnrSamples ==
    {None, Some("556000-0000"), Some("556000 0000"), Some("12345"), Some("")}

\* the haendelse_typ argument of get_haendelser
QueryTypSamples == {None, Some("konkurs"), Some("styrelse_andring"), Some("fusion")}

\* the orgnr of the path /foretag/{orgnr}
PathSamples == {"556000-0000", "556000 0000", "5560000000", "12345", "559999-0001"}

\* the service after startup and some cycles: every stored event was
\* discovered no later than the last stamp of senaste_kontroll
InitRead ==
    /\ \E data \in Listings : Loaded(ArrayFile(data))
    /\ bevakning_service = TRUE
    /\ check_interval_minutes \in IntervalSamples
    /\ upptackta_haendelser \in SeqsUpTo(EventSamples, MaxStore)
    /\ senaste_kontroll \in {None} \cup {Some(d) : d \in 0..MaxClock}
    /\ clock \in 0..MaxClock
    /\ IsNone(senaste_kontroll) => upptackta_haendelser = <<>>
    /\ ~IsNone(senaste_kontroll) =>
          /\ senaste_kontroll[1] <= clock
          /\ \A i \in 1..Len(upptackta_haendelser) :
                upptackta_haendelser[i].upptackt_datum <= senaste_kontroll[1]
    /\ InitIdle
    /\ kungorelse = [typ |-> None, namn |-> None]
    /\ event_type = None
    /\ AllabolagIdle

\* the read operations do not change the service; the result of one of
\* them is observed
Unread == reply = NoReply /\ answer = NoAnswer

\* as get_status, stamping the time of the report
get_status_stamping ==
    /\ bevakning_service /\ Unread
    /\ reply' = [route |-> "status", status |-> 200, in_flight |-> NumInFlight,
                 body |-> GetStatus]
    /\ senaste_kontroll' = Some(clock)
    /\ UNCHANGED <<bevakade_foretag, upptackta_haendelser, clock, frames,
                   classifier, startup, answer,
                 allabolag>>

\* GET /status
get_status ==
    /\ bevakning_service /\ Unread
    /\ reply' = [route |-> "status", status |-> 200, in_flight |-> NumInFlight,
                 body |-> GetStatus]
    /\ UNCHANGED <<service, clock, frames, classifier, startup, answer,
                 allabolag>>

\* a call of service.get_haendelser(orgnr=, haendelse_typ=, from_date=)
get_haendelser ==
    /\ bevakning_service /\ answer = NoAnswer
    /\ \E orgnr \in QueryOrgnrSamples, haendelse_typ \in QueryTypSamples,
          from_date \in {None} \cup {Some(d) : d \in 0..MaxClock} :
         answer' = [op |-> "get_haendelser", orgnr |-> orgnr,
                    haendelse_typ |-> haendelse_typ, from_date |-> from_date,
                    value |-> GetHaendelser(orgnr, haendelse_typ, from_date)]
    /\ UNCHANGED <<service, clock, reply, frames, classifier, startup,
                 allabolag>>

\* HTTPException(status_code=404, detail=...)
NotFound(route, orgnr) ==
    [route |-> route, orgnr |-> orgnr, status |-> 404,
     in_flight |-> NumInFlight, body |-> [detail |-> "inte bevakat"]]

\* GET /foretag/{orgnr}
routes_get_foretag ==
    /\ bevakning_service /\ Unread
    /\ \E orgnr \in PathSamples :
         reply' = IF IsNone(GetForetag(orgnr))
                  THEN NotFound("foretag/{orgnr}", orgnr)
                  ELSE [route |-> "foretag/{orgnr}", orgnr |-> orgnr,
                        status |-> 200, in_flight |-> NumInFlight,
                        body |-> GetForetag(orgnr)[1]]
    /\ UNCHANGED <<service, clock, frames, classifier, startup, answer,
                 allabolag>>

\* GET /foretag/{orgnr}/haendelser
get_foretag_haendelser ==
    /\ bevakning_service /\ Unread
    /\ \E orgnr \in PathSamples :
         reply' = IF ~IsBevakat(orgnr)
                  THEN NotFound("foretag/{orgnr}/haendelser", orgnr)
                  ELSE [route |-> "foretag/{orgnr}/haendelser", orgnr |-> orgnr,
                        status |-> 200, in_flight |-> NumInFlight,
                        body |-> GetHaendelser(Some(orgnr), None, None)]
    /\ UNCHANGED <<service, clock, frames, classifier, startup, answer,
                 allabolag>>

NextRead ==
    \/ get_status
    \/ get_haendelser
    \/ routes_get_foretag
    \/ get_foretag_haendelser

SpecRead == InitRead /\ [][NextRead]_vars

(***************************************************************************)
(* One cycle and the read operations side by side: the reads run on other  *)
(* threads than the cycle and can come between any two of its steps.       *)
(***************************************************************************)
\* a call of service.get_bevakade_foretag()
get_bevakade_foretag ==
    /\ bevakning_service /\ answer = NoAnswer
    /\ answer' = [op |-> "get_bevakade_foretag", value |-> bevakade_foretag]
    /\ UNCHANGED <<service, clock, reply, frames, classifier, startup,
                 allabolag>>

NextObserve ==
    \/ Tick
    \/ kontrollera_poit(1)
    \/ Poll(1)
    \/ Stamp(1)
    \/ ExtendAndReturn(1)
    \/ get_status
    \/ get_haendelser
    \/ get_bevakade_foretag
    \/ is_bevakat
    \/ get_foretag

SpecObserve == Init /\ [][NextObserve]_vars

(***************************************************************************)
(* scripts/allabolag-batch-update.py: the job lock of the batch update.    *)
(* Each run is a process of its own; a call of the Supabase client is one  *)
(* request to the store, which answers or raises.                          *)
(***************************************************************************)
\* the row that sync_jobs keeps for the job
JobRow(status) == [job_name |-> JOB_NAME, status |-> status]

\* sb.table("sync_jobs").upsert({"job_name": JOB_NAME, "status": status, ...})
UpsertJob(table, status) ==
    IF \E i \in 1..Len(table) : table[i].job_name = JOB_NAME
    THEN [i \in 1..Len(table) |->
             IF table[i].job_name = JOB_NAME THEN JobRow(status) ELSE table[i]]
    ELSE Append(table, JobRow(status))

\* the script is started
main(r) ==
    /\ run_pc[r] = "idle"
    /\ run_pc' = [run_pc EXCEPT ![r] = "select"]
    /\ UNCHANGED <<sync_jobs, job_data, acquired, todo, run_exit>>
    /\ UNCHANGED <<bevakning, limiter, saving>>

\* main ends with an exception that nothing catches
Raise(r) ==
    /\ run_pc' = [run_pc EXCEPT ![r] = "ended"]
    /\ run_exit' = [run_exit EXCEPT ![r] = "raised"]

\* main returns
Return(r) ==
    /\ run_pc' = [run_pc EXCEPT ![r] = "ended"]
    /\ run_exit' = [run_exit EXCEPT ![r] = "returned"]

\* acquire_job_lock, the select of line 37
acquire_select(r) ==
    /\ run_pc[r] = "select"
    /\ \/ /\ job_data' = [job_data EXCEPT ![r] = sync_jobs]
          /\ run_pc' = [run_pc EXCEPT ![r] = "upsert"]
          /\ UNCHANGED run_exit
       \/ /\ Raise(r)
          /\ UNCHANGED job_data
    /\ UNCHANGED <<sync_jobs, acquired, todo>>
    /\ UNCHANGED <<bevakning, limiter, saving>>

\* acquire_job_lock, lines 39-52: the test of the row read and the upsert
acquire_upsert(r) ==
    /\ run_pc[r] = "upsert"
    /\ IF job_data[r] # <<>> /\ job_data[r][1].status = "running"
       THEN /\ acquired' = [acquired EXCEPT ![r] = Some(FALSE)]
            /\ Return(r)
            /\ UNCHANGED sync_jobs
       ELSE \/ /\ sync_jobs' = UpsertJob(sync_jobs, "running")
               /\ acquired' = [acquired EXCEPT ![r] = Some(TRUE)]
               /\ run_pc' = [run_pc EXCEPT ![r] = "try"]
               /\ UNCHANGED run_exit
            \/ /\ Raise(r)
               /\ UNCHANGED <<sync_jobs, acquired>>
    /\ UNCHANGED <<job_data, todo>>
    /\ UNCHANGED <<bevakning, limiter, saving>>

\* main, lines 92-100: the candidates are read from the store
fetch_candidates(r) ==
    /\ run_pc[r] = "try"
    /\ \/ \E n \in 0..MaxCandidates :
             /\ todo' = [todo EXCEPT ![r] = n]
             /\ run_pc' = [run_pc EXCEPT ![r] = "loop"]
       \/ /\ run_pc' = [run_pc EXCEPT ![r] = "except"]
          /\ UNCHANGED todo
    /\ UNCHANGED <<sync_jobs, job_data, acquired, run_exit>>
    /\ UNCHANGED <<bevakning, limiter, saving>>

\* main, lines 102-108: one candidate; what scrape_company raises is printed
scrape_candidate(r) ==
    /\ run_pc[r] = "loop"
    /\ todo[r] > 0
    /\ todo' = [todo EXCEPT ![r] = todo[r] - 1]
    /\ UNCHANGED <<sync_jobs, run_pc, job_data, acquired, run_exit>>
    /\ UNCHANGED <<bevakning, limiter, saving>>

\* main, line 110: release_job_lock("done") inside the try
release_done(r) ==
    /\ run_pc[r] = "loop"
    /\ todo[r] = 0
    /\ \/ /\ sync_jobs' = UpsertJob(sync_jobs, "done")
          /\ Return(r)
       \/ /\ run_pc' = [run_pc EXCEPT ![r] = "except"]
          /\ UNCHANGED <<sync_jobs, run_exit>>
    /\ UNCHANGED <<job_data, acquired, todo>>
    /\ UNCHANGED <<bevakning, limiter, saving>>

\* main, lines 111-113: release_job_lock("failed") in the handler
release_failed(r) ==
    /\ run_pc[r] = "except"
    /\ \/ /\ sync_jobs' = UpsertJob(sync_jobs, "failed")
          /\ Return(r)
       \/ /\ Raise(r)
          /\ UNCHANGED sync_jobs
    /\ UNCHANGED <<job_data, acquired, todo>>
    /\ UNCHANGED <<bevakning, limiter, saving>>

\* the service is not part of the batch script
NoService ==
    /\ foretags_lista = ArrayFile(<<>>)
    /\ bevakade_foretag = <<>>
    /\ skipped = 0
    /\ load_caught = FALSE
    /\ bevakning_service = FALSE
    /\ check_interval_minutes = DefaultCheckInterval
    /\ senaste_kontroll = None
    /\ upptackta_haendelser = <<>>
    /\ clock = 0
    /\ InitIdle
    /\ kungorelse = [typ |-> None, namn |-> None]
    /\ event_type = None

\* what earlier runs that released the lock have left in sync_jobs
JobSamples == {<<>>, <<JobRow("done")>>, <<JobRow("failed")>>}

InitJob ==
    /\ NoService
    /\ sync_jobs \in JobSamples
    /\ JobIdle
    /\ delay = DefaultDelay
    /\ LimiterIdle
    /\ company_details = {}
    /\ company_roles = {}
    /\ company_financials = {}
    /\ SavingIdle

NextJob ==
    \E r \in Runs :
        \/ main(r)
        \/ acquire_select(r)
        \/ acquire_upsert(r)
        \/ fetch_candidates(r)
        \/ scrape_candidate(r)
        \/ release_done(r)
        \/ release_failed(r)

SpecJob == InitJob /\ [][NextJob]_vars

(***************************************************************************)
(* scrapers/allabolag_scraper.py: the rate limiter of AllabolagScraper.    *)
(* time.time() is a number of ticks; the sync API runs on one thread, the  *)
(* async API runs the two fetches of a company as tasks of one event loop, *)
(* which switches between them at an await only.                           *)
(***************************************************************************)
\* the values of the constructor's parameter delay
DelaySamples == {1, 2}

\* time.time() - self.last_request
Elapsed == time_now - last_request

\* the request of a page goes out
Request(p, at) ==
    /\ last_request' = at
    /\ requests' = Append(requests, [page |-> p, at |-> at])
    /\ fetch_pc' = [fetch_pc EXCEPT ![p] = "request"]

\* a task that the event loop can run now
Ready(p) ==
    /\ api = "async"
    /\ \/ fetch_pc[p] = "rate_limit"
       \/ fetch_pc[p] = "sleeping" /\ time_now >= wake[p]

\* the passing of time; the event loop runs the tasks that are ready before
\* it waits
TimePasses ==
    /\ time_now < MaxTime
    /\ \A p \in Pages : ~Ready(p)
    /\ time_now' = time_now + 1
    /\ UNCHANGED <<delay, last_request, api, calls, fetch_pc, wake, requests>>
    /\ UNCHANGED <<bevakning, job, saving>>

\* scrape_company up to its first fetch (lines 245-256)
scrape_company ==
    /\ api = "none"
    /\ calls < MaxCalls
    /\ api' = "sync"
    /\ calls' = calls + 1
    /\ fetch_pc' = [fetch_pc EXCEPT !["main"] = "rate_limit"]
    /\ UNCHANGED <<time_now, delay, last_request, wake, requests>>
    /\ UNCHANGED <<bevakning, job, saving>>

\* _fetch_page, lines 164-167: _rate_limit, where time.sleep lasts at least
\* as long as asked, then httpx.get sends the request
fetch_page(p) ==
    /\ api = "sync"
    /\ fetch_pc[p] = "rate_limit"
    /\ \E woke \in time_now..MaxTime :
          /\ IF Elapsed < delay
             THEN woke >= time_now + (delay - Elapsed)
             ELSE woke = time_now
          /\ time_now' = woke
          /\ Request(p, woke)
    /\ UNCHANGED <<delay, api, calls, wake>>
    /\ UNCHANGED <<bevakning, job, saving>>

\* the response of a page in scrape_company (lines 167-172, 257-279): without
\* the main page the call returns, with it the organisation page is fetched
page_fetched(p) ==
    /\ api = "sync"
    /\ fetch_pc[p] = "request"
    /\ \E html \in BOOLEAN :
          IF p = "main" /\ html
          THEN /\ fetch_pc' = [fetch_pc EXCEPT !["main"] = "done",
                                               !["org"] = "rate_limit"]
               /\ UNCHANGED api
          ELSE /\ fetch_pc' = [q \in Pages |-> "idle"]
               /\ api' = "none"
    /\ UNCHANGED <<time_now, delay, last_request, calls, wake, requests>>
    /\ UNCHANGED <<bevakning, job, saving>>

\* scrape_company_async up to asyncio.gather (lines 296-312): both fetches
\* become tasks
scrape_company_async ==
    /\ api = "none"
    /\ calls < MaxCalls
    /\ api' = "async"
    /\ calls' = calls + 1
    /\ fetch_pc' = [p \in Pages |-> "rate_limit"]
    /\ UNCHANGED <<time_now, delay, last_request, wake, requests>>
    /\ UNCHANGED <<bevakning, job, saving>>

\* _fetch_page_async up to its first await (lines 176-180, 157-160): either
\* asyncio.sleep, or, when no sleep is needed, the request; gather starts
\* the task of the main page first
rate_limit_async(p) ==
    /\ api = "async"
    /\ fetch_pc[p] = "rate_limit"
    /\ p = "org" => fetch_pc["main"] # "rate_limit"
    /\ IF Elapsed < delay
       THEN /\ wake' = [wake EXCEPT ![p] = time_now + (delay - Elapsed)]
            /\ fetch_pc' = [fetch_pc EXCEPT ![p] = "sleeping"]
            /\ UNCHANGED <<last_request, requests>>
       ELSE /\ Request(p, time_now)
            /\ UNCHANGED wake
    /\ UNCHANGED <<time_now, delay, api, calls>>
    /\ UNCHANGED <<bevakning, job, saving>>

\* asyncio.sleep is over (line 159): line 160, then the request (line 180)
wake_up(p) ==
    /\ api = "async"
    /\ fetch_pc[p] = "sleeping"
    /\ time_now >= wake[p]
    /\ Request(p, time_now)
    /\ UNCHANGED <<time_now, delay, api, calls, wake>>
    /\ UNCHANGED <<bevakning, job, saving>>

\* the response of a page in a task (lines 180-185)
page_fetched_async(p) ==
    /\ api = "async"
    /\ fetch_pc[p] = "request"
    /\ fetch_pc' = [fetch_pc EXCEPT ![p] = "done"]
    /\ UNCHANGED <<time_now, delay, last_request, api, calls, wake, requests>>
    /\ UNCHANGED <<bevakning, job, saving>>

\* asyncio.gather returns and scrape_company_async goes on to its end
\* (lines 312-333)
gathered ==
    /\ api = "async"
    /\ \A p \in Pages : fetch_pc[p] = "done"
    /\ fetch_pc' = [p \in Pages |-> "idle"]
    /\ api' = "none"
    /\ UNCHANGED <<time_now, delay, last_request, calls, wake, requests>>
    /\ UNCHANGED <<bevakning, job, saving>>

InitLimiter ==
    /\ NoService
    /\ sync_jobs = <<>>
    /\ JobIdle
    /\ delay \in DelaySamples
    /\ LimiterIdle
    /\ company_details = {}
    /\ company_roles = {}
    /\ company_financials = {}
    /\ SavingIdle

NextLimiter ==
    \/ TimePasses
    \/ scrape_company
    \/ \E p \in Pages : fetch_page(p) \/ page_fetched(p)
    \/ scrape_company_async
    \/ \E p \in Pages :
          rate_limit_async(p) \/ wake_up(p) \/ page_fetched_async(p)
    \/ gathered

SpecLimiter == InitLimiter /\ [][NextLimiter]_vars

(***************************************************************************)
(* scrapers/allabolag_scraper.py: AllabolagScraper._save_to_supabase.  A   *)
(* table is the set of its rows; each call of the Supabase client is one   *)
(* request to the store, which is carried out or raises.                   *)
(***************************************************************************)
\* the company that is saved and another company of the store
SavedOrgnr == "5560000000"

OtherOrgnr == "5591234567"

RoleSamples == {"Verkställande direktör", "Styrelseledamot"}

PeriodSamples == {2022, 2023}

RoleRows(orgnr) ==
    {[orgnr |-> orgnr, role_type |-> role] : role \in RoleSamples}

PeriodRows(orgnr) ==
    {[orgnr |-> orgnr, period_year |-> y] : y \in PeriodSamples}

\* the scrape results that are saved: with and without roles and financials
DataSamples ==
    {[orgnr |-> SavedOrgnr, roles |-> roles, financials |-> financials] :
        roles \in {<<>>, <<[role_type |-> "Styrelseledamot"]>>,
                   <<[role_type |-> "Styrelseledamot"],
                     [role_type |-> "Revisor"]>>},
        financials \in {<<>>, <<[period_year |-> 2024]>>}}

\* table.delete().eq('orgnr', orgnr)
Delete(table, orgnr) == {row \in table : row.orgnr # orgnr}

\* [{'orgnr': data['orgnr'], **item} for item in items], inserted
Insert(table, orgnr, items) ==
    table \cup {[orgnr |-> orgnr] @@ items[i] : i \in 1..Len(items)}

\* the statement that follows the upsert of company_details, and the one
\* that follows the roles (lines 666, 680, 693)
AfterRoles(d) ==
    IF d.financials # <<>> THEN "delete_financials" ELSE "return"

AfterDetails(d) ==
    IF d.roles # <<>> THEN "delete_roles" ELSE AfterRoles(d)

\* the store call raised: except Exception, return False (lines 696-698)
SaveFails ==
    /\ save_pc' = "returned"
    /\ saved' = Some(FALSE)

\* _save_to_supabase is called (lines 649-658); without a client it returns
\* False at once
save_to_supabase ==
    /\ save_pc = "idle"
    /\ \E d \in DataSamples, supabase \in BOOLEAN :
          /\ scraped' = d
          /\ rows_before' = [roles |-> company_roles,
                             financials |-> company_financials]
          /\ IF supabase
             THEN save_pc' = "upsert_details" /\ UNCHANGED saved
             ELSE SaveFails
    /\ UNCHANGED <<company_details, company_roles, company_financials>>
    /\ UNCHANGED <<bevakning, job, limiter>>

\* lines 661-663
upsert_details ==
    /\ save_pc = "upsert_details"
    /\ \/ /\ company_details' = company_details \cup {scraped.orgnr}
          /\ save_pc' = AfterDetails(scraped)
          /\ UNCHANGED saved
       \/ /\ SaveFails
          /\ UNCHANGED company_details
    /\ UNCHANGED <<company_roles, company_financials, scraped, rows_before>>
    /\ UNCHANGED <<bevakning, job, limiter>>

\* lines 668-671
delete_roles ==
    /\ save_pc = "delete_roles"
    /\ \/ /\ company_roles' = Delete(company_roles, scraped.orgnr)
          /\ save_pc' = "insert_roles"
          /\ UNCHANGED saved
       \/ /\ SaveFails
          /\ UNCHANGED company_roles
    /\ UNCHANGED <<company_details, company_financials, scraped, rows_before>>
    /\ UNCHANGED <<bevakning, job, limiter>>

\* lines 674-677
insert_roles ==
    /\ save_pc = "insert_roles"
    /\ \/ /\ company_roles' =
                Insert(company_roles, scraped.orgnr, scraped.roles)
          /\ save_pc' = AfterRoles(scraped)
          /\ UNCHANGED saved
       \/ /\ SaveFails
          /\ UNCHANGED company_roles
    /\ UNCHANGED <<company_details, company_financials, scraped, rows_before>>
    /\ UNCHANGED <<bevakning, job, limiter>>

\* lines 682-685
delete_financials ==
    /\ save_pc = "delete_financials"
    /\ \/ /\ company_financials' = Delete(company_financials, scraped.orgnr)
          /\ save_pc' = "insert_financials"
          /\ UNCHANGED saved
       \/ /\ SaveFails
          /\ UNCHANGED company_financials
    /\ UNCHANGED <<company_details, company_roles, scraped, rows_before>>
    /\ UNCHANGED <<bevakning, job, limiter>>

\* lines 688-691
insert_financials ==
    /\ save_pc = "insert_financials"
    /\ \/ /\ company_financials' =
                Insert(company_financials, scraped.orgnr, scraped.financials)
          /\ save_pc' = "return"
          /\ UNCHANGED saved
       \/ /\ SaveFails
          /\ UNCHANGED company_financials
    /\ UNCHANGED <<company_details, company_roles, scraped, rows_before>>
    /\ UNCHANGED <<bevakning, job, limiter>>

\* lines 693-694
save_returns ==
    /\ save_pc = "return"
    /\ save_pc' = "returned"
    /\ saved' = Some(TRUE)
    /\ UNCHANGED <<company_details, company_roles, company_financials, scraped,
                   rows_before>>
    /\ UNCHANGED <<bevakning, job, limiter>>

\* the store after earlier saves: a company that has rows has its row in
\* company_details
InitSave ==
    /\ NoService
    /\ sync_jobs = <<>>
    /\ JobIdle
    /\ delay = DefaultDelay
    /\ LimiterIdle
    /\ company_roles \in
          SUBSET (RoleRows(SavedOrgnr) \cup RoleRows(OtherOrgnr))
    /\ company_financials \in
          SUBSET (PeriodRows(SavedOrgnr) \cup PeriodRows(OtherOrgnr))
    /\ company_details =
          {row.orgnr : row \in company_roles \cup company_financials}
    /\ SavingIdle

NextSave ==
    \/ save_to_supabase
    \/ upsert_details
    \/ delete_roles
    \/ insert_roles
    \/ delete_financials
    \/ insert_financials
    \/ save_returns

SpecSave == InitSave /\ [][NextSave]_vars

(***************************************************************************)
(* Properties of the polling cycle.                                        *)
(***************************************************************************)
\* the cycle of thread t has returned
Done(t) == pc[t] = "done" /\ result[t].kind = "returned"

\* the cycle of thread t ran over the whole watch list: the scraper was
\* constructed and no limit cut the list
Unlimited(t) == result[t].scraper /\ ~Truthy(result[t].limit)

\* every record of the response is an announcement with a text category
WellTyped(ks) == \A j \in 1..Len(ks) : ~IsNone(ks[j].typ)

\* every response of the cycle so far is a failure result or a success
\* result made of announcements
ResultsOnly(t) ==
    \A i \in 1..Len(polled[t]) :
        polled[t][i].success => WellTyped(polled[t][i].kungorelser)

RECURSIVE Flatten(_)
Flatten(seqs) == IF Len(seqs) = 0 THEN <<>> ELSE Head(seqs) \o Flatten(Tail(seqs))

\* the (entity, announcement id) pairs of the announcements that the
\* successful responses of the cycle carried, in order
AnnouncedPairs(t) ==
    Flatten([i \in 1..Len(polled[t]) |->
        IF polled[t][i].success
        THEN [j \in 1..Len(polled[t][i].kungorelser) |->
                <<polled[t][i].orgnr, polled[t][i].kungorelser[j].kungorelse_id>>]
        ELSE <<>>])

EventPairs(events) ==
    [j \in 1..Len(events) |-> <<events[j].foretag_orgnr, events[j].kalla_id>>]

\* C1: at most one cycle is in flight, and a trigger that arrives while a
\* cycle is in flight is rejected (CycleAlreadyRunning, HTTP 409) instead of
\* being acknowledged
C1_SingleFlight ==
    /\ NumInFlight <= 1
    /\ reply.in_flight > 0 => reply.status = 409

\* C2: a cycle over the whole watch list, in which every response is a
\* failure result or a success result, polls every entity in listed order,
\* returns exactly the events of the entities whose result was a success,
\* and no event of an entity whose result was a failure
C2_FailureResultSkipped ==
    \A t \in Threads :
        (Done(t) /\ Unlimited(t) /\ ResultsOnly(t)) =>
            /\ [i \in 1..Len(polled[t]) |-> polled[t][i].orgnr]
                 = [i \in 1..Len(bevakade_foretag) |->
                        bevakade_foretag[i].organisationsnummer]
            /\ EventPairs(result[t].value) = AnnouncedPairs(t)
            /\ \A i \in 1..Len(polled[t]) :
                 ~polled[t][i].success =>
                    \A j \in 1..Len(result[t].value) :
                        result[t].value[j].foretag_orgnr # polled[t][i].orgnr

\* C2 witness: a finished cycle over two entities, the first with a failure
\* result, the second polled after it and contributing events
C2_Witness ==
    \E t \in Threads :
        /\ Done(t) /\ Unlimited(t) /\ ResultsOnly(t)
        /\ Len(polled[t]) = 2
        /\ ~polled[t][1].success
        /\ polled[t][2].success
        /\ Len(result[t].value) = 2

\* C3: a cycle in which the handling of one entity raised still polled every
\* entity of its list
C3_ExceptionIsolated ==
    \A t \in Threads :
        (Done(t) /\ \E i \in 1..Len(polled[t]) : polled[t][i].raised) =>
            Len(polled[t]) = Len(foretag_lista[t])

\* the source has failed for every entity of the cycle of thread t, or the
\* scraper could not be constructed
AllFailed(t) ==
    /\ pc[t] \in {"stamp", "extend"}
    /\ \/ ~result[t].scraper
       \/ /\ Len(polled[t]) = Len(foretag_lista[t])
          /\ \A i \in 1..Len(polled[t]) : ~polled[t][i].success

\* C4: a cycle in which the source failed for every entity (or the scraper
\* could not be constructed) sets senaste_kontroll to the time of its end,
\* leaves the event store as it is and returns the empty list
C4_TotalOutage ==
    [][\A t \in Threads :
         AllFailed(t) =>
            /\ (pc[t] = "stamp" /\ pc'[t] # "stamp") =>
                  (pc'[t] = "extend" /\ senaste_kontroll' = Some(clock))
            /\ (pc[t] = "extend" /\ pc'[t] # "extend") =>
                  /\ pc'[t] = "done"
                  /\ result'[t].kind = "returned"
                  /\ result'[t].value = <<>>
                  /\ upptackta_haendelser' = upptackta_haendelser]_vars

\* C4 witness: a cycle over two entities, both failed, has returned, and
\* senaste_kontroll is the time it wrote
C4_Witness ==
    \E t \in Threads :
        /\ Done(t) /\ Unlimited(t)
        /\ Len(polled[t]) = 2
        /\ \A i \in 1..2 : ~polled[t][i].success
        /\ result[t].value = <<>>
        /\ senaste_kontroll = result[t].stamp
        /\ ~IsNone(senaste_kontroll)

\* the announcement k of entity foretag and the event e correspond
EventMatches(e, foretag, k) ==
    /\ e.foretag_orgnr = foretag.organisationsnummer
    /\ e.foretag_namn = foretag.namn
    /\ e.haendelse_typ = ClassifyMemo[<<k.typ, k.namn>>]
    /\ Some(e.rubrik) = k.typ
    /\ e.beskrivning = k.namn
    /\ e.kalla_id = k.kungorelse_id
    /\ e.kalla_url = k.url
    /\ e.kalla = "POIT"
    /\ e.notifierad = FALSE

\* C5: the turn of the loop that receives a success result made of
\* announcements creates exactly one event for each announcement, in order,
\* with the fields of the entity and of the announcement; a success result
\* without announcements and a failure result create none
C5_OneEventPerAnnouncement ==
    [][\A t \in Threads :
         (pc[t] = "poll" /\ Len(polled'[t]) = Len(polled[t]) + 1) =>
            LET foretag == foretag_lista[t][idx[t]]
                r == polled'[t][Len(polled'[t])]
                n == Len(nya_haendelser[t])
                new == SubSeq(nya_haendelser'[t], n + 1, Len(nya_haendelser'[t]))
            IN  /\ SubSeq(nya_haendelser'[t], 1, n) = nya_haendelser[t]
                /\ r.orgnr = foretag.organisationsnummer
                /\ (r.success /\ WellTyped(r.kungorelser)) =>
                      /\ Len(new) = Len(r.kungorelser)
                      /\ \A j \in 1..Len(new) :
                            EventMatches(new[j], foretag, r.kungorelser[j])
                /\ ~r.success => new = <<>>]_vars

\* C5 witness: a success result with two announcements has been turned into
\* two events
C5_Witness ==
    \E t \in Threads :
        /\ Len(polled[t]) > 0
        /\ polled[t][1].success
        /\ Len(polled[t][1].kungorelser) = 2
        /\ Len(nya_haendelser[t]) = 2
        /\ nya_haendelser[t][1].haendelse_typ = "styrelse_andring"
        /\ nya_haendelser[t][2].haendelse_typ = "konkurs"

\* C6: a cycle returns the events it created, in the order of creation, and
\* when no other cycle was in flight meanwhile the event store is the store
\* from before the cycle followed by the returned list
C6_ReturnsOwnEvents ==
    \A t \in Threads :
        Done(t) =>
            /\ result[t].value
                 = Flatten([i \in 1..Len(polled[t]) |-> polled[t][i].events])
            /\ ~overlapped[t] =>
                 \/ upptackta_haendelser = store_before[t] \o result[t].value
                 \/ \E u \in Threads \ {t} :
                      /\ Done(u) /\ ~overlapped[u]
                      /\ store_before[u] = store_before[t] \o result[t].value
                      /\ upptackta_haendelser = store_before[u] \o result[u].value

\* C6 witness: a second cycle, run after the first had returned events, has
\* returned events of its own
C6_Witness ==
    \E t \in Threads :
        /\ Done(t) /\ ~overlapped[t]
        /\ Len(store_before[t]) > 0
        /\ Len(result[t].value) > 0
        /\ upptackta_haendelser = store_before[t] \o result[t].value

\* C7: when POST /kontrollera/sync has answered, a cycle has run: the answer
\* is the list the cycle returned, and senaste_kontroll is set
C7_SyncRunsCycle ==
    \A t \in Threads :
        (entry[t] = "sync" /\ pc[t] = "done") =>
            /\ result[t].kind = "returned"
            /\ reply.status = 200
            /\ ~IsNone(senaste_kontroll)

\* C8: a call started by the background task of POST /kontrollera or by the
\* scheduler ends only after its cycle has run to completion, as a cycle
\* called directly does
C8_BackgroundRunsCycle ==
    \A t \in Threads :
        (entry[t] \in {"background", "scheduled"} /\ pc[t] = "done") =>
            /\ result[t].kind = "returned"
            /\ ~IsNone(result[t].stamp)

(***************************************************************************)
(* Properties of the classifier.                                           *)
(***************************************************************************)
\* the order of the rules by event type: Bankruptcy, Liquidation, Merger,
\* BoardChange, CeoChange, ArticlesAmendment, ShareIssue,
\* UnknownCreditorNotice, AnnualReport
RuleOrder ==
    <<"konkurs", "likvidation", "fusion", "styrelse_andring", "vd_byte",
      "bolagsordning_andring", "nyemission", "kallelse_okand_borgenar",
      "arsredovisning">>

\* the keywords of the rule for an event type
KeywordsOf(typ) ==
    ClassifyRules[CHOOSE i \in 1..Len(ClassifyRules) : ClassifyRules[i].typ = typ].words

\* a missing text counts as the empty text
TextOf(o) == IF IsNone(o) THEN "" ELSE o[1]

\* the event type of the first rule in RuleOrder with a keyword in text
FirstRule(text) ==
    LET hits == {i \in 1..Len(RuleOrder) : AnyWordIn(text, KeywordsOf(RuleOrder[i]))}
    IN  IF hits = {} THEN "annan"
        ELSE RuleOrder[CHOOSE i \in hits : \A j \in hits : i <= j]

\* C9 as stated: the result is the first rule with a keyword in the
\* lower-cased text made of the category directly followed by the summary
C9_FirstMatchPlainConcat ==
    ~IsNone(event_type) =>
        event_type[1]
          = FirstRule(Lower(TextOf(kungorelse.typ) \o TextOf(kungorelse.namn)))

\* C9 amended: the result is the first rule with a keyword in the
\* lower-cased text made of the category, one space and the summary, and
\* "annan" when no rule has one
C9_FirstMatchSpaceJoined ==
    ~IsNone(event_type) =>
        event_type[1]
          = FirstRule(Lower(TextOf(kungorelse.typ) \o " " \o TextOf(kungorelse.namn)))

\* C9 witness: a text with a board keyword and a bankruptcy keyword has been
\* classified as bankruptcy
C9_Witness ==
    /\ event_type = Some("konkurs")
    /\ Contains(ClassifyText(kungorelse), "styrelse")
    /\ Contains(ClassifyText(kungorelse), "konkurs")

\* the cycles of the two threads ran one after the other
Successive == Done(1) /\ Done(2) /\ ~overlapped[1] /\ ~overlapped[2]

\* what the source answered in the cycle of thread t
Responses(t) ==
    [i \in 1..Len(polled[t]) |->
        [orgnr |-> polled[t][i].orgnr, success |-> polled[t][i].success,
         kungorelser |-> polled[t][i].kungorelser]]

\* the number of events of the entity orgnr that carry the source id
CountId(events, orgnr, id) ==
    Cardinality({i \in 1..Len(events) :
                    events[i].foretag_orgnr = orgnr /\ events[i].kalla_id = id})

\* C17: after two successive cycles the store holds, for every announcement
\* of an entity that both cycles turned into an event, the events of both
\* cycles (at least two with that source id), and when both cycles received
\* the same responses the store holds twice the events of the first.
C17_NoDeduplication ==
    Successive =>
        /\ \A i \in 1..Len(nya_haendelser[1]), j \in 1..Len(nya_haendelser[2]) :
              LET e == nya_haendelser[1][i]
                  f == nya_haendelser[2][j]
              IN  (e.foretag_orgnr = f.foretag_orgnr /\ e.kalla_id = f.kalla_id)
                    => /\ CountId(upptackta_haendelser, e.foretag_orgnr, e.kalla_id)
                            = CountId(nya_haendelser[1], e.foretag_orgnr, e.kalla_id)
                              + CountId(nya_haendelser[2], e.foretag_orgnr, e.kalla_id)
                       /\ CountId(upptackta_haendelser, e.foretag_orgnr, e.kalla_id) >= 2
        /\ Responses(1) = Responses(2)
              => Len(upptackta_haendelser) = 2 * Len(nya_haendelser[1])

\* two successive cycles received the same announcements and each appended
\* its events
C17_Witness ==
    /\ Successive
    /\ Responses(1) = Responses(2)
    /\ Len(nya_haendelser[1]) >= 2
    /\ \E i \in 1..Len(nya_haendelser[1]) :
          CountId(upptackta_haendelser, nya_haendelser[1][i].foretag_orgnr,
                  nya_haendelser[1][i].kalla_id) = 2

\* min(l, n)
Min(l, n) == IF l < n THEN l ELSE n

\* C20: a cycle given the limit L polls exactly the first min(L, N) entities
\* of the watch list in listed order, and a cycle without limit polls all N
\* in listed order (over cycles whose scraper was constructed and whose
\* responses are failure results or announcements).
C20_LimitCutsWatchList ==
    \A t \in Threads :
        (Done(t) /\ result[t].scraper /\ ResultsOnly(t)) =>
            LET n == IF IsNone(result[t].limit) THEN Len(bevakade_foretag)
                     ELSE Min(result[t].limit[1], Len(bevakade_foretag))
            IN  [i \in 1..Len(polled[t]) |-> polled[t][i].orgnr]
                  = [i \in 1..n |-> bevakade_foretag[i].organisationsnummer]

\* the source failed for every entity that the cycle of thread t polled
Outage(t) ==
    /\ Done(t)
    /\ Len(polled[t]) >= 1
    /\ \A i \in 1..Len(polled[t]) : ~polled[t][i].success

\* the service as a cycle of thread t leaves it when every call of the
\* source succeeds and carries no announcement
AfterQuietCycle(t) == <<bevakade_foretag, result[t].stamp, store_before[t]>>

\* C21: after a cycle in which the source failed for every polled entity the
\* state of the service records the failures, so it differs from the state
\* that a cycle without failure and without announcement leaves.
C21_FailuresRecorded ==
    \A t \in Threads :
        (Outage(t) /\ \A u \in Threads \ {t} : pc[u] = "idle")
            => service # AfterQuietCycle(t)

\* C22: senaste_kontroll changes only when a cycle that has polled every
\* entity of its list within the limit, none of them ending in an
\* exception, stamps it, and its value never decreases.
C22_StampOnlyAfterFullCycle ==
    [][senaste_kontroll' # senaste_kontroll =>
         /\ \E t \in Threads :
               /\ pc[t] = "stamp" /\ pc'[t] = "extend"
               /\ Len(polled[t]) = Len(ForetagLista(result[t].limit))
               /\ \A i \in 1..Len(polled[t]) : ~polled[t][i].raised
         /\ ~IsNone(senaste_kontroll')
         /\ IsNone(senaste_kontroll)
               \/ senaste_kontroll'[1] >= senaste_kontroll[1]]_vars

\* C24: every stored event carries the key of an entity of the watch list
\* and the name stored for that key.
C24_EventsOfWatchedEntities ==
    \A j \in 1..Len(upptackta_haendelser) :
        \E i \in 1..Len(bevakade_foretag) :
            /\ bevakade_foretag[i].organisationsnummer
                  = upptackta_haendelser[j].foretag_orgnr
            /\ bevakade_foretag[i].namn = upptackta_haendelser[j].foretag_namn

\* the store holds events of two entities of the watch list
C24_Witness ==
    /\ Len(bevakade_foretag) = 2
    /\ \E j, k \in 1..Len(upptackta_haendelser) :
          /\ upptackta_haendelser[j].foretag_orgnr
                = bevakade_foretag[1].organisationsnummer
          /\ upptackta_haendelser[k].foretag_orgnr
                = bevakade_foretag[2].organisationsnummer

(***************************************************************************)
(* Properties of the watch list.                                           *)
(***************************************************************************)
Separators == {"-", " "}

Digits == {"0", "1", "2", "3", "4", "5", "6", "7", "8", "9"}

RECURSIVE Unseparated(_)
\* the characters of s that are not separators, in order
Unseparated(s) ==
    IF Len(s) = 0 THEN ""
    ELSE (IF SubSeq(s, 1, 1) \in Separators THEN "" ELSE SubSeq(s, 1, 1))
            \o Unseparated(SubSeq(s, 2, Len(s)))

RECURSIVE AllIn(_, _)
\* every character of s is one of chars
AllIn(s, chars) ==
    Len(s) = 0 \/ (SubSeq(s, 1, 1) \in chars /\ AllIn(SubSeq(s, 2, Len(s)), chars))

\* s with zeros in front up to 10 characters
ZeroPad(s) ==
    IF Len(s) >= 10 THEN s ELSE SubSeq("0000000000", 1, 10 - Len(s)) \o s

\* the canonical identifier of a raw identifier
CanonicalId(raw) == ZeroPad(Unseparated(raw))

\* the application has started from a listing of {identifier, name} pairs
ListingOfPairs ==
    /\ bevakning_service
    /\ foretags_lista.kind = "array"
    /\ \A j \in 1..Len(foretags_lista.data) : IsObject(foretags_lista.data[j])

Entries == 1..Len(foretags_lista.data)

RawId(j) == Get(foretags_lista.data[j], "orgnr", "")

NameOf(j) == Get(foretags_lista.data[j], "company_name", "")

\* entry j has at most 10 characters after stripping
Fits(j) == Len(Unseparated(RawId(j))) <= 10

Entities == 1..Len(bevakade_foretag)

Keys == {bevakade_foretag[i].organisationsnummer : i \in Entities}

Largest(js) == CHOOSE j \in js : \A k \in js : k <= j

\* C11: after the load of a listing of pairs every key has exactly 10
\* characters, and only digits when every raw identifier is made of digits
\* and separators; every named entry with at most 10 characters after
\* stripping is stored under its identifier padded with zeros on the left,
\* every key comes from such an entry (so an identifier with more than 10 is
\* not stored), and skipped counts exactly the entries with more than 10.
C11_CanonicalIds ==
    ListingOfPairs =>
        /\ \A i \in Entities : Len(bevakade_foretag[i].organisationsnummer) = 10
        /\ (\A j \in Entries : AllIn(RawId(j), Digits \cup Separators))
              => \A k \in Keys : AllIn(k, Digits)
        /\ \A j \in Entries :
              (Fits(j) /\ NameOf(j) # "") => CanonicalId(RawId(j)) \in Keys
        /\ \A k \in Keys :
              \E j \in Entries : Fits(j) /\ k = CanonicalId(RawId(j))
        /\ skipped = Cardinality({j \in Entries : ~Fits(j)})

\* a short identifier was padded and a long one skipped
C11_Witness ==
    /\ ListingOfPairs
    /\ skipped = 1
    /\ \E j \in Entries :
          /\ Len(Unseparated(RawId(j))) < 10
          /\ AllIn(RawId(j), Digits \cup Separators)
          /\ RawId(j) # ""
          /\ CanonicalId(RawId(j)) \in Keys

\* C12: after the load of a listing of pairs every entity originates from
\* an entry whose name is not empty and whose identifier is not empty after
\* stripping the separators.
C12_EmptyEntriesDiscarded ==
    ListingOfPairs =>
        \A i \in Entities :
            \E j \in Entries :
                /\ NameOf(j) # ""
                /\ Unseparated(RawId(j)) # ""
                /\ Fits(j)
                /\ bevakade_foretag[i].organisationsnummer = CanonicalId(RawId(j))
                /\ bevakade_foretag[i].namn = NameOf(j)

\* the entries that normalize to the canonical identifier c
SameId(c) == {j \in Entries : Fits(j) /\ CanonicalId(RawId(j)) = c}

\* those of them that have a name
NamedSameId(c) == {j \in SameId(c) : NameOf(j) # ""}

\* the watch list holds one entity for c, named as entry j
OneEntityNamedAs(c, j) ==
    /\ Cardinality({i \in Entities :
                       bevakade_foretag[i].organisationsnummer = c}) = 1
    /\ \A i \in Entities :
          bevakade_foretag[i].organisationsnummer = c
              => bevakade_foretag[i].namn = NameOf(j)

\* C13 as stated: when several entries normalize to the same canonical
\* identifier, the watch list holds exactly one entity for it, with the name
\* of the last such entry.
C13_LastEntryWins ==
    ListingOfPairs =>
        \A j \in Entries :
            LET c == CanonicalId(RawId(j)) IN
            Cardinality(SameId(c)) >= 2 => OneEntityNamedAs(c, Largest(SameId(c)))

\* C13: when several entries with a non-empty name normalize to the same
\* canonical identifier, the watch list holds exactly one entity for it,
\* with the name of the last such entry.
C13_LastNamedEntryWins ==
    ListingOfPairs =>
        \A j \in Entries :
            LET c == CanonicalId(RawId(j)) IN
            Cardinality(NamedSameId(c)) >= 2
                => OneEntityNamedAs(c, Largest(NamedSameId(c)))

\* two entries with different names were loaded under one identifier, and
\* an entry without a name followed them
C13_Witness ==
    /\ ListingOfPairs
    /\ \E j, k, l \in Entries :
          /\ j < k /\ k < l
          /\ {j, k} \subseteq NamedSameId(CanonicalId(RawId(j)))
          /\ l \in SameId(CanonicalId(RawId(j)))
          /\ NameOf(l) = ""
          /\ NameOf(j) # NameOf(k)

\* C14: a source that is unreadable or is not a listing fails the start, so
\* that no service is put behind the routes; a listing never fails, and
\* every valid entry of it is stored, whatever the other entries are.
C14_LoadErrorIsFatal ==
    /\ (load_caught /\ foretags_lista.kind # "array") => ~bevakning_service
    /\ (bevakning_service /\ foretags_lista.kind = "array") =>
          /\ ~load_caught
          /\ \A j \in Entries :
                LET item == foretags_lista.data[j] IN
                (IsObject(item) /\ Fits(j) /\ NameOf(j) # ""
                                /\ Unseparated(RawId(j)) # "")
                    => CanonicalId(RawId(j)) \in Keys

\* the raw identifier r is an identifier of the listing
Listed(r) ==
    /\ foretags_lista.kind = "array"
    /\ \E j \in Entries : IsObject(foretags_lista.data[j]) /\ RawId(j) = r

\* C15: is_bevakat(r) is true and get_foretag(r) is the entity under the
\* key of r for every raw identifier r of the listing that was stored, and
\* they are false and None for every r whose canonical identifier is not a
\* key.
C15_LookupNormalizesAsLoad ==
    answer.op \in {"is_bevakat", "get_foretag"} =>
        LET c == CanonicalId(answer.orgnr)
            found == answer.op = "is_bevakat" => answer.value
            entity == answer.op = "get_foretag" =>
                         (~IsNone(answer.value)
                            /\ answer.value[1].organisationsnummer = c)
            absent == answer.value = (IF answer.op = "is_bevakat"
                                      THEN FALSE ELSE None)
        IN  /\ (Listed(answer.orgnr) /\ c \in Keys) => (found /\ entity)
            /\ c \notin Keys => absent

(***************************************************************************)
(* Properties of the read operations.                                      *)
(***************************************************************************)
\* C16: the query returns exactly the stored events that satisfy every
\* filter given (the entity equal to the canonical identifier of orgnr, the
\* type equal, discovered not earlier than from_date), in the order of the
\* store; without a filter it returns every stored event.
C16_QueryFilters ==
    answer.op = "get_haendelser" =>
        answer.value =
            SelectSeq(upptackta_haendelser, LAMBDA h :
                /\ ~IsNone(answer.orgnr)
                      => h.foretag_orgnr = CanonicalId(answer.orgnr[1])
                /\ ~IsNone(answer.haendelse_typ)
                      => h.haendelse_typ = answer.haendelse_typ[1]
                /\ ~IsNone(answer.from_date)
                      => h.upptackt_datum >= answer.from_date[1])

\* C18: the status gives senaste_kontroll, and nasta_kontroll as
\* senaste_kontroll plus the interval the scheduler was started with, both
\* absent before the first cycle; status is "OK" and the entity count is
\* the size of the watch list.
C18_NextRunByConfiguredInterval ==
    reply.route = "status" =>
        /\ reply.body.senaste_kontroll = senaste_kontroll
        /\ reply.body.nasta_kontroll =
              (IF IsNone(senaste_kontroll) THEN None
               ELSE Some(senaste_kontroll[1] + check_interval_minutes))
        /\ reply.body.status = "OK"
        /\ reply.body.antal_bevakade_foretag = Len(bevakade_foretag)

\* C19: both routes of one entity answer 404 for every id whose canonical
\* identifier is not a key of the watch list; for an id whose canonical
\* identifier is a key and has no stored event, the events route answers
\* 200 with the empty list.
C19_UnknownIdNotFound ==
    reply.route \in {"foretag/{orgnr}", "foretag/{orgnr}/haendelser"} =>
        LET c == CanonicalId(reply.orgnr) IN
        /\ c \notin Keys => reply.status = 404
        /\ (/\ reply.route = "foretag/{orgnr}/haendelser"
            /\ c \in Keys
            /\ \A i \in 1..Len(upptackta_haendelser) :
                  upptackta_haendelser[i].foretag_orgnr # c)
              => (reply.status = 200 /\ reply.body = <<>>)

(***************************************************************************)
(* Properties of the service state over cycles and reads.                  *)
(***************************************************************************)
\* a is a prefix of b
IsPrefix(a, b) == Len(a) <= Len(b) /\ SubSeq(b, 1, Len(a)) = a

\* C23: every step leaves the event store a prefix of the store after the
\* step: no stored event is removed, reordered or changed.
C23_AppendOnly ==
    [][IsPrefix(upptackta_haendelser, upptackta_haendelser')]_vars

\* a cycle has appended its events behind the events of an earlier cycle
C23_Witness ==
    \E t \in Threads :
        /\ Done(t)
        /\ Len(store_before[t]) >= 2
        /\ Len(nya_haendelser[t]) >= 2
        /\ Len(upptackta_haendelser) > Len(store_before[t])
        /\ IsPrefix(store_before[t], upptackta_haendelser)

\* C25: no step changes the watch list, and a step of a read operation
\* (one that returns an answer or a response) changes neither the event
\* store nor senaste_kontroll.
C25_WatchListFrozen ==
    [][/\ bevakade_foretag' = bevakade_foretag
       /\ (answer' # answer \/ reply' # reply)
             => UNCHANGED <<upptackta_haendelser, senaste_kontroll>>]_vars

\* the status was read while the cycle was running and the watch list was
\* read after the cycle had stored events
C25_Witness ==
    /\ Done(1)
    /\ Len(upptackta_haendelser) >= 1
    /\ reply.route = "status"
    /\ IsNone(reply.body.senaste_kontroll)
    /\ answer.op = "get_bevakade_foretag"
    /\ answer.value = bevakade_foretag
    /\ Len(answer.value) = 2

\* C26: a reader that has read from the status the senaste_kontroll written
\* by the cycle and then queries the store without filter finds the events
\* of the cycle in it.
C26_StampNotBeforeEvents ==
    (/\ reply.route = "status"
     /\ ~IsNone(result[1].stamp)
     /\ reply.body.senaste_kontroll = result[1].stamp
     /\ answer.op = "get_haendelser"
     /\ IsNone(answer.orgnr) /\ IsNone(answer.haendelse_typ)
     /\ IsNone(answer.from_date))
        => IsPrefix(store_before[1] \o nya_haendelser[1], answer.value)

(***************************************************************************)
(* Properties of the job lock of the batch update.                         *)
(***************************************************************************)
\* acquire_job_lock returned True to run r and r has not ended
Holds(r) == acquired[r] = Some(TRUE) /\ run_pc[r] # "ended"

LockRunning == sync_jobs # <<>> /\ sync_jobs[1].status = "running"

\* C27: at most one run at a time has got True from acquire_job_lock and is
\* still running, also when two runs start concurrently
C27_OneRunHoldsLock == Cardinality({r \in Runs : Holds(r)}) <= 1

\* C28: a run that acquired the lock sets the status to done or failed
\* before it ends: the status is running only while some run that acquired
\* the lock has not ended yet
C28_LockReleasedAtEnd == LockRunning => \E r \in Runs : Holds(r)

(***************************************************************************)
(* Properties of the rate limiter.                                         *)
(***************************************************************************)
\* C29: any two page requests of one scraper start at least delay apart,
\* in the sync API and in the async API
C29_RequestsDelayApart ==
    \A i, j \in 1..Len(requests) :
        i < j => requests[j].at - requests[i].at >= delay

(***************************************************************************)
(* Properties of saving a scrape result.                                   *)
(***************************************************************************)
\* the rows of a company in a table
RowsOf(table, orgnr) == {row \in table : row.orgnr = orgnr}

\* C30: after a save that failed, a table that held rows of the company
\* when the save began still holds rows of the company, old or new: the
\* company is not left with its old rows deleted and no new rows inserted
C30_FailedSaveKeepsRows ==
    saved = Some(FALSE) =>
        /\ RowsOf(rows_before.roles, scraped.orgnr) # {}
              => RowsOf(company_roles, scraped.orgnr) # {}
        /\ RowsOf(rows_before.financials, scraped.orgnr) # {}
              => RowsOf(company_financials, scraped.orgnr) # {}

=============================================================================
